---- MODULE Spec2Model ----
(***************************************************************************)
(* A model of ieee754.c: the decoder of IEEE-754 binary32 / binary64       *)
(* values (float_to_u32, double_to_u64, decode_float, decode_double,       *)
(* print_bits_u32, print_bits_u64 and the driver main).                    *)
(*                                                                         *)
(* Machine words are wider than the integers TLC computes with, so a       *)
(* word of width W is the function [0..W-1 -> {0,1}] of its bits, bit 0    *)
(* the least significant.  Memory is a sequence of bytes (0..255) in       *)
(* address order.  A float or a double is named by its IEEE-754 encoding;  *)
(* its object representation in memory follows the platform's byte order.  *)
(* Standard output is a sequence of strings: the literal text of a format  *)
(* is one item, every converted digit is an item of one character.         *)
(***************************************************************************)
EXTENDS Integers, Sequences, FiniteSets

VARIABLES
    endian,   \* the platform's byte order: "little" or "big"
    pc,       \* per caller: the statement of decode_* it is about to run
    call,     \* per caller: the function called and its argument
    frame,    \* per stack frame: the locals u, sign, exp, frac
    out,      \* the standard output stream
    mpc,      \* the line of main about to run (0: main is not running)
    loop      \* the frame of a print_bits_* call run on its own: x, i, fn, at

vars == <<endian, pc, call, frame, out, mpc, loop>>

(***************************************************************************)
(* Bounds of the model and constants of the program.                       *)
(***************************************************************************)
NumByteSamples == 4

Width32 == 32
Width64 == 64
SignShift32 == 31
ExpShift32 == 23
SignShift64 == 63
ExpShift64 == 52
TopBit32FromWidth == 31 + 1
TopBit32 == 31
TopBit64 == 63
HexPadExp32 == 2
HexPadFrac32 == 6
HexPadExp64 == 3
HexPadFrac64 == 13

(***************************************************************************)
(* Words and the C operators on them.                                      *)
(***************************************************************************)
Bit == {0, 1}

ZeroWord(W) == [i \in 0..(W - 1) |-> 0]

\* An unsigned hexadecimal literal of width W; digits most significant first.
HexLit(digits, W) ==
    [i \in 0..(W - 1) |->
        IF (i \div 4) < Len(digits)
        THEN (digits[Len(digits) - (i \div 4)] \div (2 ^ (i % 4))) % 2
        ELSE 0]

\* x >> n on an unsigned word (0 <= n < width).
Shr(x, n) == [i \in DOMAIN x |-> IF (i + n) \in DOMAIN x THEN x[i + n] ELSE 0]

\* x & m on unsigned words of one width.
BitAnd(x, m) == [i \in DOMAIN x |-> IF x[i] = 1 /\ m[i] = 1 THEN 1 ELSE 0]

\* The value of a word that fits the model's integers.
RECURSIVE NatFrom(_, _)
NatFrom(x, i) == IF i \notin DOMAIN x THEN 0 ELSE x[i] + 2 * NatFrom(x, i + 1)
ToNat(x) == NatFrom(x, 0)

(***************************************************************************)
(* Object representations: how a word lies in memory, and memcpy.          *)
(***************************************************************************)
ByteOrders == {"little", "big"}

\* The value of byte k of a word, k = 0 the least significant.
ByteOf(x, k) ==
    x[8 * k] + 2 * x[8 * k + 1] + 4 * x[8 * k + 2] + 8 * x[8 * k + 3]
    + 16 * x[8 * k + 4] + 32 * x[8 * k + 5] + 64 * x[8 * k + 6] + 128 * x[8 * k + 7]

\* The address (1..n) of byte k of an n-byte object.
AddrOf(k, n, order) == IF order = "little" THEN k + 1 ELSE n - k

\* The bytes of an object holding word x, in address order.
ObjectRep(x, W, order) ==
    [a \in 1..(W \div 8) |->
        ByteOf(x, IF order = "little" THEN a - 1 ELSE (W \div 8) - a)]

\* The word an unsigned integer object of width W holds.
ValueOfRep(bytes, W, order) ==
    [i \in 0..(W - 1) |->
        (bytes[AddrOf(i \div 8, W \div 8, order)] \div (2 ^ (i % 8))) % 2]

\* memcpy(dst, src, n): the first n bytes of dst become those of src.
memcpy(dst, src, n) == [a \in DOMAIN dst |-> IF a <= n THEN src[a] ELSE dst[a]]

\* A local that has not been assigned yet.
Indeterminate == <<>>

\* What the bytes of a declared, not yet written object of width W may hold.
IndeterminateReps(W) == {[a \in 1..(W \div 8) |-> b] : b \in {0, 255}}

(***************************************************************************)
(* float_to_u32 and double_to_u64: the bytes of the argument are copied    *)
(* into an unsigned integer of the same size, which is then read.  junk is *)
(* what the integer held before the copy.                                  *)
(***************************************************************************)
\* (uint32_t)f, the numeric conversion: the value truncated toward zero.
\* Values below 1 give 0; values the target cannot hold are not defined by C
\* and give 0 here.
NumericCast(f, W, FW, EW) ==
    LET e == ToNat([i \in 0..(EW - 1) |-> f[FW + i]])
        bias == 2 ^ (EW - 1) - 1
        E == e - bias
        sig == [i \in 0..(W - 1) |-> IF i < FW THEN f[i] ELSE IF i = FW THEN 1 ELSE 0]
    IN  IF e = 0 \/ E < 0 \/ E >= W \/ f[W - 1] = 1 \/ e = 2 ^ EW - 1
        THEN ZeroWord(W)
        ELSE [i \in 0..(W - 1) |->
                IF (i + FW - E) \in 0..(W - 1) THEN sig[i + FW - E] ELSE 0]

float_to_u32_cast(f, junk) == NumericCast(f, Width32, ExpShift32, 8)
float_to_u32(f, junk) ==
    LET src == ObjectRep(f, Width32, endian)
        dst == memcpy(junk, src, Width32 \div 8)
    IN  ValueOfRep(dst, Width32, endian)

double_to_u64(d, junk) ==
    LET src == ObjectRep(d, Width64, endian)
        dst == memcpy(junk, src, Width64 \div 8)
    IN  ValueOfRep(dst, Width64, endian)

(***************************************************************************)
(* The field extraction of decode_float and decode_double.                 *)
(***************************************************************************)
SignMask32 == HexLit(<<1>>, Width32)
ExpMask32 == HexLit(<<15, 15>>, Width32)
FracMask32 == HexLit(<<7, 15, 15, 15, 15, 15>>, Width32)
SignMask64 == HexLit(<<1>>, Width64)
ExpMask64 == HexLit(<<7, 15, 15>>, Width64)
FracMask64 == HexLit(<<15, 15, 15, 15, 15, 15, 15, 15, 15, 15, 15, 15, 15>>, Width64)

Sign32ShiftedShort(u) == BitAnd(Shr(u, SignShift32 - 1), SignMask32)
Sign32(u) == BitAnd(Shr(u, SignShift32), SignMask32)
Exp32NarrowMask(u) == BitAnd(Shr(u, ExpShift32), HexLit(<<7, 15>>, Width32))
Exp32WideMask(u) == BitAnd(Shr(u, ExpShift32), HexLit(<<1, 15, 15>>, Width32))
Exp32(u) == BitAnd(Shr(u, ExpShift32), ExpMask32)
Frac32WideMask(u) == BitAnd(u, HexLit(<<15, 15, 15, 15, 15, 15>>, Width32))
Frac32(u) == BitAnd(u, FracMask32)

Sign64(u) == BitAnd(Shr(u, SignShift64), SignMask64)
Exp64(u) == BitAnd(Shr(u, ExpShift64), ExpMask64)
Frac64(u) == BitAnd(u, FracMask64)

(***************************************************************************)
(* printf conversions and print_bits_*.                                    *)
(***************************************************************************)
HexChars == <<"0", "1", "2", "3", "4", "5", "6", "7", "8", "9", "A", "B", "C", "D", "E", "F">>

\* The value of hexadecimal digit k of a word, k = 0 the least significant.
NibbleOf(x, k) == x[4 * k] + 2 * x[4 * k + 1] + 4 * x[4 * k + 2] + 8 * x[4 * k + 3]

\* The number of hexadecimal digits of x without leading zeros (at least 1).
HexLen(x) ==
    LET nz == {k \in 0..((Cardinality(DOMAIN x) \div 4) - 1) : NibbleOf(x, k) # 0}
    IN  IF nz = {} THEN 1 ELSE 1 + (CHOOSE k \in nz : \A j \in nz : j <= k)

\* %0<pad>X: upper-case hexadecimal, zero-padded on the left to pad digits.
FmtHex(x, pad) ==
    LET n == IF HexLen(x) > pad THEN HexLen(x) ELSE pad
    IN  [p \in 1..n |-> HexChars[NibbleOf(x, n - p) + 1]]

\* x / 10 and x % 10 by long division over the bits, from bit i down; r is
\* the remainder so far and q the quotient so far.  (Each step's values are
\* bound by a set constructor, so that they are evaluated once.)
RECURSIVE DivTenFrom(_, _, _, _)
DivTenFrom(x, i, r, q) ==
    IF i < 0 THEN [q |-> q, r |-> r]
    ELSE CHOOSE res \in {DivTenFrom(x, j, c % 10, q2) :
                            j \in {i - 1},
                            c \in {2 * r + x[i]},
                            q2 \in {[q EXCEPT ![i] = (2 * r + x[i]) \div 10]}} : TRUE
DivTen(x) == DivTenFrom(x, Cardinality(DOMAIN x) - 1, 0, x)

\* The decimal digits of x, most significant first, before acc; none for 0.
\* (The quotient and remainder are bound by a set constructor, so that they
\* are evaluated once.)
RECURSIVE DecDigitsOf(_, _)
DecDigitsOf(x, acc) ==
    IF x = ZeroWord(Cardinality(DOMAIN x)) THEN acc
    ELSE CHOOSE r \in {DecDigitsOf(d.q, <<HexChars[d.r + 1]>> \o acc) : d \in {DivTen(x)}} : TRUE
DecDigits(x) == DecDigitsOf(x, <<>>)

\* %u and %llu: decimal, no padding.
FmtDec(x) == IF DecDigits(x) = <<>> THEN <<"0">> ELSE DecDigits(x)

\* One iteration of the loop of print_bits_*: the digit of bit i, and a
\* space after the bits named in seps.
BitDigit(x, i) == IF BitAnd(Shr(x, i), HexLit(<<1>>, Cardinality(DOMAIN x)))[0] = 1 THEN "1" ELSE "0"
PrintBitsBody(x, i, seps) == IF i \in seps THEN <<BitDigit(x, i), " ">> ELSE <<BitDigit(x, i)>>

RECURSIVE PrintBitsLoop(_, _, _)
PrintBitsLoop(x, i, seps) ==
    IF i >= 0 THEN PrintBitsBody(x, i, seps) \o PrintBitsLoop(x, i - 1, seps) ELSE <<>>

Seps32 == {31, 23}
Seps64 == {63, 52}
print_bits_u32(x) == PrintBitsLoop(x, TopBit32, Seps32)
print_bits_u64(x) == PrintBitsLoop(x, TopBit64, Seps64)

(***************************************************************************)
(* The classification of a decoded value by its exponent and fraction      *)
(* fields; emax is the largest exponent field of the format.               *)
(***************************************************************************)
IsZeroWord(x) == \A i \in DOMAIN x : x[i] = 0

EmaxOf(fn) == IF fn = "decode_float" THEN 255 ELSE 2047

RowSignedZero(exp, frac, emax) == ToNat(exp) = 0 /\ IsZeroWord(frac)
RowSubnormal(exp, frac, emax) == ToNat(exp) = 0 /\ ~IsZeroWord(frac)
RowNormal(exp, frac, emax) == 0 < ToNat(exp) /\ ToNat(exp) < emax
RowInfinity(exp, frac, emax) == ToNat(exp) = emax /\ IsZeroWord(frac)
RowNaNAnyFraction(exp, frac, emax) == ToNat(exp) = emax
RowNaN(exp, frac, emax) == ToNat(exp) = emax /\ ~IsZeroWord(frac)

Classification(exp, frac, emax) ==
    (IF RowSignedZero(exp, frac, emax) THEN {"signed zero"} ELSE {})
    \cup (IF RowSubnormal(exp, frac, emax) THEN {"subnormal"} ELSE {})
    \cup (IF RowNormal(exp, frac, emax) THEN {"normal"} ELSE {})
    \cup (IF RowInfinity(exp, frac, emax) THEN {"signed infinity"} ELSE {})
    \cup (IF RowNaN(exp, frac, emax) THEN {"NaN"} ELSE {})

(***************************************************************************)
(* The arguments of main: decimal floating constants and unary minus.      *)
(***************************************************************************)
\* x + 1 on a word.
Inc(x) == [i \in DOMAIN x |-> IF \A j \in 0..(i - 1) : x[j] = 1 THEN 1 - x[i] ELSE x[i]]

\* k more binary digits of r/d (0 <= r < d) by long division: the digits,
\* most significant first, and the remainder left.
RECURSIVE LongDiv(_, _, _, _)
LongDiv(r, d, k, acc) ==
    IF k = 0 THEN [bits |-> acc, rem |-> r]
    ELSE IF 2 * r >= d THEN LongDiv(2 * r - d, d, k - 1, Append(acc, 1))
    ELSE LongDiv(2 * r, d, k - 1, Append(acc, 0))

\* The encoding, with FW fraction bits and EW exponent bits, of the decimal
\* constant num/den (a zero or a value in the normal range), rounded to
\* nearest, ties to even.
DecimalConstant(num, den, FW, EW) ==
    LET W == 1 + EW + FW
        bias == 2 ^ (EW - 1) - 1
        Fits(E) == IF E >= 0
                   THEN num >= den * 2 ^ E /\ num < den * 2 ^ (E + 1)
                   ELSE num * 2 ^ (0 - E) >= den /\ num * 2 ^ (0 - E) < 2 * den
        E == CHOOSE E \in (0 - 12)..12 : Fits(E)
        n2 == IF E < 0 THEN num * 2 ^ (0 - E) ELSE num
        d2 == IF E < 0 THEN den ELSE den * 2 ^ E
        q == LongDiv(n2 - d2, d2, FW + 1, <<>>)
        up == q.bits[FW + 1] = 1 /\ (q.rem # 0 \/ q.bits[FW] = 1)
        trunc == [i \in 0..(W - 1) |->
                    IF i < FW THEN q.bits[FW - i]
                    ELSE IF i < FW + EW THEN ((E + bias) \div (2 ^ (i - FW))) % 2
                    ELSE 0]
    IN  IF num = 0 THEN ZeroWord(W) ELSE IF up THEN Inc(trunc) ELSE trunc

FloatConstant(num, den) == DecimalConstant(num, den, 23, 8)
DoubleConstant(num, den) == DecimalConstant(num, den, 52, 11)

\* Unary minus on a float or double: the sign bit is flipped.
Neg(f) ==
    LET W == Cardinality(DOMAIN f)
    IN  [i \in DOMAIN f |-> IF i = W - 1 THEN 1 - f[i] ELSE f[i]]

\* The call main makes at a line.
MainCallAt(line) ==
    CASE line = 62 -> [fn |-> "decode_float", arg |-> FloatConstant(5, 1)]
      [] line = 64 -> [fn |-> "decode_float", arg |-> FloatConstant(1, 10)]
      [] line = 66 -> [fn |-> "decode_double", arg |-> DoubleConstant(1, 10)]
      [] line = 68 -> [fn |-> "decode_float", arg |-> Neg(FloatConstant(0, 1))]

(***************************************************************************)
(* The arguments decode_float and decode_double are called with: every     *)
(* storage byte pattern over a sample of byte values, and some named       *)
(* values.                                                                 *)
(***************************************************************************)
SampleBytes == <<0, 255, 128, 127, 63, 240, 1, 15>>
ByteSet == {SampleBytes[k] : k \in 1..NumByteSamples}

\* The word with the given bytes, most significant first.
WordOfBytes(bs) ==
    [i \in 0..(8 * Len(bs) - 1) |-> (bs[Len(bs) - (i \div 8)] \div (2 ^ (i % 8))) % 2]

FloatInputs ==
    {WordOfBytes(<<a, b, c, d>>) : a \in ByteSet, b \in ByteSet, c \in ByteSet, d \in ByteSet}
    \cup {FloatConstant(1, 1), FloatConstant(5, 1), FloatConstant(1, 10),
          Neg(FloatConstant(1, 10)), HexLit(<<7, 15, 12, 0, 0, 0, 0, 1>>, 32)}

DoubleInputs ==
    {WordOfBytes(<<a, b, c, c, c, c, c, c>>) : a \in ByteSet, b \in ByteSet, c \in ByteSet}
    \cup {DoubleConstant(1, 1), DoubleConstant(1, 10), Neg(DoubleConstant(5, 1))}

Callers == {"a", "b"}

NoCall == [fn |-> "none", arg |-> Indeterminate]
FreshFrame == [u |-> Indeterminate, sign |-> Indeterminate,
               exp |-> Indeterminate, frac |-> Indeterminate]
NoLoop == [fn |-> "none", x |-> Indeterminate, i |-> 0, at |-> "none"]

\* The first statement of a function.
EntryOf(fn) == IF fn = "decode_float" THEN 32 ELSE IF fn = "decode_double" THEN 47 ELSE 0

\* The stack frame a caller's decode_* runs in: its own.
FrameOfStatic(t) == "a"
FrameOf(t) == t

Local(t) == frame[FrameOf(t)]

(***************************************************************************)
(* decode_float, statement by statement (pc is the source line).           *)
(***************************************************************************)
SetLocal(t, name, val, next) ==
    /\ frame' = [frame EXCEPT ![FrameOf(t)][name] = val]
    /\ pc' = [pc EXCEPT ![t] = next]
    /\ UNCHANGED <<endian, call, out, mpc, loop>>

Emit(t, items, next) ==
    /\ out' = out \o items
    /\ pc' = [pc EXCEPT ![t] = next]
    /\ UNCHANGED <<endian, call, frame, mpc, loop>>

DecodeFloat_uRejectsNaN(t) ==
    /\ pc[t] = 32
    /\ ~(\A i \in 23..30 : call[t].arg[i] = 1)
    /\ \E junk \in IndeterminateReps(Width32) :
          SetLocal(t, "u", float_to_u32(call[t].arg, junk), 33)

DecodeFloat_u(t) ==
    /\ pc[t] = 32
    /\ \E junk \in IndeterminateReps(Width32) :
          SetLocal(t, "u", float_to_u32(call[t].arg, junk), 33)

DecodeFloat_sign(t) == pc[t] = 33 /\ SetLocal(t, "sign", Sign32(Local(t).u), 34)

DecodeFloat_exp(t) == pc[t] = 34 /\ SetLocal(t, "exp", Exp32(Local(t).u), 35)

DecodeFloat_frac(t) == pc[t] = 35 /\ SetLocal(t, "frac", Frac32(Local(t).u), 37)

\* The decimal rendering of the value itself is not modelled: the conversion
\* specification holds its place in the stream.
DecodeFloat_printValue(t) == pc[t] = 37 /\ Emit(t, <<"float = ", "%.9g", "\n">>, 38)

DecodeFloat_printLabel(t) == pc[t] = 38 /\ Emit(t, <<"bits  = ">>, 39)

DecodeFloat_printBits(t) == pc[t] = 39 /\ Emit(t, print_bits_u32(Local(t).u), 40)

DecodeFloat_newline(t) == pc[t] = 40 /\ Emit(t, <<"\n">>, 41)

DecodeFloat_printSign(t) ==
    pc[t] = 41 /\ Emit(t, <<"sign  = ">> \o FmtDec(Local(t).sign) \o <<"\n">>, 42)

DecodeFloat_printExp(t) ==
    /\ pc[t] = 42
    /\ Emit(t, <<"exp   = 0x">> \o FmtHex(Local(t).exp, HexPadExp32) \o <<" (">>
               \o FmtDec(Local(t).exp) \o <<")\n">>, 43)

FracLine32(frac) ==
    <<"frac  = 0x">> \o FmtHex(frac, HexPadFrac32) \o <<" (">> \o FmtDec(frac) \o <<")\n">>

DecodeFloat_printFrac(t) == pc[t] = 43 /\ Emit(t, FracLine32(Local(t).frac), 44)

decode_float(t) ==
    \/ DecodeFloat_u(t)
    \/ DecodeFloat_sign(t)
    \/ DecodeFloat_exp(t)
    \/ DecodeFloat_frac(t)
    \/ DecodeFloat_printValue(t)
    \/ DecodeFloat_printLabel(t)
    \/ DecodeFloat_printBits(t)
    \/ DecodeFloat_newline(t)
    \/ DecodeFloat_printSign(t)
    \/ DecodeFloat_printExp(t)
    \/ DecodeFloat_printFrac(t)

(***************************************************************************)
(* decode_double, statement by statement.                                  *)
(***************************************************************************)
DecodeDouble_u(t) ==
    /\ pc[t] = 47
    /\ \E junk \in IndeterminateReps(Width64) :
          SetLocal(t, "u", double_to_u64(call[t].arg, junk), 48)

DecodeDouble_sign(t) == pc[t] = 48 /\ SetLocal(t, "sign", Sign64(Local(t).u), 49)

DecodeDouble_exp(t) == pc[t] = 49 /\ SetLocal(t, "exp", Exp64(Local(t).u), 50)

DecodeDouble_frac(t) == pc[t] = 50 /\ SetLocal(t, "frac", Frac64(Local(t).u), 52)

DecodeDouble_printValue(t) == pc[t] = 52 /\ Emit(t, <<"double = ", "%.17g", "\n">>, 53)

DecodeDouble_printLabel(t) == pc[t] = 53 /\ Emit(t, <<"bits   = ">>, 54)

DecodeDouble_printBits(t) == pc[t] = 54 /\ Emit(t, print_bits_u64(Local(t).u), 55)

DecodeDouble_newline(t) == pc[t] = 55 /\ Emit(t, <<"\n">>, 56)

DecodeDouble_printSign(t) ==
    pc[t] = 56 /\ Emit(t, <<"sign   = ">> \o FmtDec(Local(t).sign) \o <<"\n">>, 57)

DecodeDouble_printExp(t) ==
    /\ pc[t] = 57
    /\ Emit(t, <<"exp    = 0x">> \o FmtHex(Local(t).exp, HexPadExp64) \o <<" (">>
               \o FmtDec(Local(t).exp) \o <<")\n">>, 58)

FracLine64(frac) == <<"frac   = 0x">> \o FmtHex(frac, HexPadFrac64) \o <<"\n">>

DecodeDouble_printFrac(t) == pc[t] = 58 /\ Emit(t, FracLine64(Local(t).frac), 59)

decode_double(t) ==
    \/ DecodeDouble_u(t)
    \/ DecodeDouble_sign(t)
    \/ DecodeDouble_exp(t)
    \/ DecodeDouble_frac(t)
    \/ DecodeDouble_printValue(t)
    \/ DecodeDouble_printLabel(t)
    \/ DecodeDouble_printBits(t)
    \/ DecodeDouble_newline(t)
    \/ DecodeDouble_printSign(t)
    \/ DecodeDouble_printExp(t)
    \/ DecodeDouble_printFrac(t)

\* The line at which a decode_* has returned.
ReturnOf(fn) == IF fn = "decode_float" THEN 44 ELSE IF fn = "decode_double" THEN 59 ELSE 0
Returned(t) == call[t].fn # "none" /\ pc[t] = ReturnOf(call[t].fn)

(***************************************************************************)
(* One call of decode_float or decode_double on any input.                 *)
(***************************************************************************)
Calls ==
    {[fn |-> "decode_float", arg |-> f] : f \in FloatInputs}
    \cup {[fn |-> "decode_double", arg |-> d] : d \in DoubleInputs}

Init ==
    /\ endian \in ByteOrders
    /\ \E c \in Calls :
          /\ call = [t \in Callers |-> IF t = "a" THEN c ELSE NoCall]
          /\ pc = [t \in Callers |-> IF t = "a" THEN EntryOf(c.fn) ELSE 0]
    /\ frame = [t \in Callers |-> FreshFrame]
    /\ out = <<>>
    /\ mpc = 0
    /\ loop = NoLoop

Next == \E t \in Callers : decode_float(t) \/ decode_double(t)

Spec == Init /\ [][Next]_vars

\* The scheduler runs a call that can take a step.
SpecLive == Spec /\ WF_vars(Next)

(***************************************************************************)
(* main: four calls, run by caller "a", with a rule between them.          *)
(***************************************************************************)
MainCallLines == {62, 64, 66, 68}
MainPutsLines == {63, 65, 67}

MainCall ==
    /\ mpc \in MainCallLines
    /\ pc["a"] = 0
    /\ call' = [call EXCEPT !["a"] = MainCallAt(mpc)]
    /\ pc' = [pc EXCEPT !["a"] = EntryOf(MainCallAt(mpc).fn)]
    /\ frame' = [frame EXCEPT ![FrameOf("a")] = FreshFrame]
    /\ UNCHANGED <<endian, out, mpc, loop>>

MainReturnFrom ==
    /\ mpc \in MainCallLines
    /\ Returned("a")
    /\ pc' = [pc EXCEPT !["a"] = 0]
    /\ mpc' = mpc + 1
    /\ UNCHANGED <<endian, call, frame, out, loop>>

MainPuts ==
    /\ mpc \in MainPutsLines
    /\ out' = out \o <<"----", "\n">>
    /\ mpc' = mpc + 1
    /\ UNCHANGED <<endian, pc, call, frame, loop>>

MainReturn ==
    /\ mpc = 69
    /\ mpc' = 71
    /\ UNCHANGED <<endian, pc, call, frame, out, loop>>

InitMain ==
    /\ endian \in ByteOrders
    /\ call = [t \in Callers |-> NoCall]
    /\ pc = [t \in Callers |-> 0]
    /\ frame = [t \in Callers |-> FreshFrame]
    /\ out = <<>>
    /\ mpc = 62
    /\ loop = NoLoop

NextMain == MainCall \/ MainReturnFrom \/ MainPuts \/ MainReturn \/ Next

SpecMain == InitMain /\ [][NextMain]_vars

(***************************************************************************)
(* print_bits_u32 and print_bits_u64 run on their own, one iteration of    *)
(* the for loop per step.                                                  *)
(***************************************************************************)
PrintBitsU32_iter ==
    /\ loop.fn = "print_bits_u32" /\ loop.at = "for"
    /\ loop.i >= 0
    /\ out' = out \o PrintBitsBody(loop.x, loop.i, Seps32)
    /\ loop' = [loop EXCEPT !.i = loop.i - 1]
    /\ UNCHANGED <<endian, pc, call, frame, mpc>>

PrintBitsU32_exit ==
    /\ loop.fn = "print_bits_u32" /\ loop.at = "for"
    /\ ~(loop.i >= 0)
    /\ loop' = [loop EXCEPT !.at = "returned"]
    /\ UNCHANGED <<endian, pc, call, frame, out, mpc>>

PrintBitsU64_iter ==
    /\ loop.fn = "print_bits_u64" /\ loop.at = "for"
    /\ loop.i >= 0
    /\ out' = out \o PrintBitsBody(loop.x, loop.i, Seps64)
    /\ loop' = [loop EXCEPT !.i = loop.i - 1]
    /\ UNCHANGED <<endian, pc, call, frame, mpc>>

PrintBitsU64_exit ==
    /\ loop.fn = "print_bits_u64" /\ loop.at = "for"
    /\ ~(loop.i >= 0)
    /\ loop' = [loop EXCEPT !.at = "returned"]
    /\ UNCHANGED <<endian, pc, call, frame, out, mpc>>

InitBits ==
    /\ endian \in ByteOrders
    /\ call = [t \in Callers |-> NoCall]
    /\ pc = [t \in Callers |-> 0]
    /\ frame = [t \in Callers |-> FreshFrame]
    /\ out = <<>>
    /\ mpc = 0
    /\ \/ \E x \in FloatInputs :
             loop = [fn |-> "print_bits_u32", x |-> x, i |-> TopBit32, at |-> "for"]
       \/ \E x \in DoubleInputs :
             loop = [fn |-> "print_bits_u64", x |-> x, i |-> TopBit64, at |-> "for"]

NextBits == PrintBitsU32_iter \/ PrintBitsU32_exit \/ PrintBitsU64_iter \/ PrintBitsU64_exit

SpecBits == InitBits /\ [][NextBits]_vars

(***************************************************************************)
(* Two callers at once, interleaved statement by statement.                *)
(***************************************************************************)
ConcCalls ==
    {[fn |-> "decode_float", arg |-> FloatConstant(5, 1)],
     [fn |-> "decode_double", arg |-> DoubleConstant(1, 10)]}

InitConc ==
    /\ endian \in ByteOrders
    /\ call \in [Callers -> ConcCalls]
    /\ pc = [t \in Callers |-> EntryOf(call[t].fn)]
    /\ frame = [t \in Callers |-> FreshFrame]
    /\ out = <<>>
    /\ mpc = 0
    /\ loop = NoLoop

SpecConc == InitConc /\ [][Next]_vars

(***************************************************************************)
(* Operators the properties are stated with.                               *)
(***************************************************************************)
\* x << n and x | y on unsigned words.
Shl(x, n) == [i \in DOMAIN x |-> IF (i - n) \in DOMAIN x THEN x[i - n] ELSE 0]
BitOr(x, y) == [i \in DOMAIN x |-> IF x[i] = 1 \/ y[i] = 1 THEN 1 ELSE 0]
Disjoint(x, y) == \A i \in DOMAIN x : ~(x[i] = 1 /\ y[i] = 1)

\* x <= y on unsigned words of one width.
ULeq(x, y) ==
    \/ x = y
    \/ \E i \in DOMAIN x : x[i] < y[i] /\ \A j \in DOMAIN x : j > i => x[j] = y[j]

IsWord(x, W) == DOMAIN x = 0..(W - 1) /\ \A i \in 0..(W - 1) : x[i] \in Bit

WidthOf(fn) == IF fn = "decode_float" THEN 32 ELSE 64
FracWidthOf(fn) == IF fn = "decode_float" THEN 23 ELSE 52
ExpWidthOf(fn) == IF fn = "decode_float" THEN 8 ELSE 11

\* The fields of an encoding, read off its bits.
ExpBitsOf(f, fn) == [i \in 0..(ExpWidthOf(fn) - 1) |-> f[FracWidthOf(fn) + i]]
FracBitsOf(f, fn) == [i \in 0..(FracWidthOf(fn) - 1) |-> f[i]]
IsNaNValue(f, fn) == (\A i \in DOMAIN ExpBitsOf(f, fn) : ExpBitsOf(f, fn)[i] = 1)
                     /\ ~IsZeroWord(FracBitsOf(f, fn))
IsZeroValue(f, fn) == IsZeroWord(ExpBitsOf(f, fn)) /\ IsZeroWord(FracBitsOf(f, fn))
IsFiniteNonzero(f, fn) ==
    (\E i \in DOMAIN ExpBitsOf(f, fn) : ExpBitsOf(f, fn)[i] = 0) /\ ~IsZeroValue(f, fn)

\* The last n items of a sequence.
LastItems(s, n) == IF Len(s) < n THEN <<>> ELSE SubSeq(s, Len(s) - n + 1, Len(s))
EndsWith(s, e) == LastItems(s, Len(e)) = e

(***************************************************************************)
(* C5: the four calls main makes decode to the documented fields: 5.0f to  *)
(* sign 0, exponent 129 (0x81), fraction 0x200000; 0.1f to sign 0,         *)
(* exponent 123 (0x7B), fraction 0x4CCCCD (5033165), printed as the README *)
(* shows; -0.0f to sign 1, exponent 0, fraction 0, a signed zero; the      *)
(* double 0.1 to sign 0, exponent 1019 (0x3FB), fraction 0x999999999999A.  *)
(***************************************************************************)
FieldsAre(t, s, e, ehex, fhex) ==
    /\ ToNat(Local(t).sign) = s
    /\ ToNat(Local(t).exp) = e
    /\ Local(t).exp = HexLit(ehex, WidthOf(call[t].fn))
    /\ Local(t).frac = HexLit(fhex, WidthOf(call[t].fn))

ReadmeBlock ==
    <<"bits  = ", "0", " ", "0", "1", "1", "1", "1", "0", "1", "1", " ",
      "1", "0", "0", "1", "1", "0", "0", "1", "1", "0", "0", "1",
      "1", "0", "0", "1", "1", "0", "0", "1", "1", "0", "1", "\n",
      "sign  = ", "0", "\n",
      "exp   = 0x", "7", "B", " (", "1", "2", "3", ")\n",
      "frac  = 0x", "4", "C", "C", "C", "C", "D", " (", "5", "0", "3", "3", "1", "6", "5", ")\n">>

C5_SampleInputs ==
    Returned("a") =>
        /\ mpc = 62 => FieldsAre("a", 0, 129, <<8, 1>>, <<2, 0, 0, 0, 0, 0>>)
        /\ mpc = 64 => /\ FieldsAre("a", 0, 123, <<7, 11>>, <<4, 12, 12, 12, 12, 13>>)
                       /\ ToNat(Local("a").frac) = 5033165
                       /\ EndsWith(out, ReadmeBlock)
        /\ mpc = 66 => FieldsAre("a", 0, 1019, <<3, 15, 11>>,
                                 <<9, 9, 9, 9, 9, 9, 9, 9, 9, 9, 9, 9, 10>>)
        /\ mpc = 68 => /\ FieldsAre("a", 1, 0, <<0>>, <<0>>)
                       /\ Classification(Local("a").exp, Local("a").frac, 255) = {"signed zero"}

C5_Witness ==
    /\ mpc = 68 /\ Returned("a")
    /\ ToNat(Local("a").sign) = 1
    /\ Len(out) > 200

(***************************************************************************)
(* The state of a call.                                                    *)
(***************************************************************************)
Active(t) == call[t].fn # "none"
IsFloatCall(t) == call[t].fn = "decode_float"
IsDoubleCall(t) == call[t].fn = "decode_double"
\* The statement that assigns u has run.
HasU(t) == Active(t) /\ pc[t] # EntryOf(call[t].fn)

\* What a call leaves in its locals when it runs alone.
AloneFields(c, junk) ==
    IF c.fn = "decode_float"
    THEN LET u == float_to_u32(c.arg, junk)
         IN  [u |-> u, sign |-> Sign32(u), exp |-> Exp32(u), frac |-> Frac32(u)]
    ELSE LET u == double_to_u64(c.arg, junk)
         IN  [u |-> u, sign |-> Sign64(u), exp |-> Exp64(u), frac |-> Frac64(u)]

(***************************************************************************)
(* C1: the fields decode_float and decode_double extract are a lossless    *)
(* partition of the raw word u: (sign << (width-1)) | (exponent <<         *)
(* fraction_width) | fraction = u, and no two of the shifted fields have   *)
(* a set bit in common.                                                    *)
(***************************************************************************)
C1_Partition ==
    \A t \in Callers :
        Returned(t) =>
            LET l == Local(t)
                s == Shl(l.sign, WidthOf(call[t].fn) - 1)
                e == Shl(l.exp, FracWidthOf(call[t].fn))
            IN  /\ BitOr(BitOr(s, e), l.frac) = l.u
                /\ Disjoint(s, e) /\ Disjoint(s, l.frac) /\ Disjoint(e, l.frac)
                /\ l.u = call[t].arg

C1_Witness ==
    /\ Returned("a") /\ IsDoubleCall("a")
    /\ ToNat(Local("a").sign) = 1
    /\ ~IsZeroWord(Local("a").exp)
    /\ ~IsZeroWord(Local("a").frac)

(***************************************************************************)
(* C2: the fields fit their widths: sign is 0 or 1, the exponent is at     *)
(* most 255 (float) or 2047 (double), the fraction at most 0x7FFFFF or     *)
(* 0xFFFFFFFFFFFFF; and the values of each range are reached: overwriting  *)
(* a field of the input with a value of its range (the least, the          *)
(* greatest, the lowest and the highest single bit) gives an input that    *)
(* decodes to that value, and so does overwriting the exponent field of    *)
(* 0.1 with any exponent of the range.                                     *)
(***************************************************************************)
WithField(f, lo, n, v) ==
    [i \in DOMAIN f |-> IF i \in lo..(lo + n - 1) THEN v[i - lo] ELSE f[i]]

\* Values of an n-bit field, as words of width W.
FieldProbes(n, W) ==
    {ZeroWord(W),
     [i \in 0..(W - 1) |-> IF i < n THEN 1 ELSE 0],
     [i \in 0..(W - 1) |-> IF i = 0 THEN 1 ELSE 0],
     [i \in 0..(W - 1) |-> IF i = n - 1 THEN 1 ELSE 0]}

FieldOfAlone(c, name) ==
    {AloneFields(c, junk)[name] : junk \in IndeterminateReps(WidthOf(c.fn))}

Reaches(c, name, lo, n) ==
    \A v \in FieldProbes(n, WidthOf(c.fn)) :
        FieldOfAlone([fn |-> c.fn, arg |-> WithField(c.arg, lo, n, v)], name) = {v}

\* The word of width W with value n (n below 2^12).
SmallWord(n, W) == [i \in 0..(W - 1) |-> IF i < 12 THEN (n \div (2 ^ i)) % 2 ELSE 0]

ReachesEveryExponent(c) ==
    \A e \in 0..EmaxOf(c.fn) :
        FieldOfAlone([fn |-> c.fn,
                      arg |-> WithField(c.arg, FracWidthOf(c.fn), ExpWidthOf(c.fn),
                                        SmallWord(e, WidthOf(c.fn)))], "exp")
            = {SmallWord(e, WidthOf(c.fn))}

C2_FieldRanges ==
    \A t \in Callers :
        Returned(t) =>
            LET l == Local(t)
                W == WidthOf(call[t].fn)
                FW == FracWidthOf(call[t].fn)
                EW == ExpWidthOf(call[t].fn)
            IN  /\ IsWord(l.sign, W) /\ IsWord(l.exp, W) /\ IsWord(l.frac, W)
                /\ ToNat(l.sign) \in {0, 1}
                /\ ToNat(l.exp) \in 0..EmaxOf(call[t].fn)
                /\ IsFloatCall(t) => ULeq(l.frac, HexLit(<<7, 15, 15, 15, 15, 15>>, 32))
                /\ IsDoubleCall(t) =>
                      ULeq(l.frac, HexLit(<<15, 15, 15, 15, 15, 15, 15,
                                            15, 15, 15, 15, 15, 15>>, 64))
                /\ Reaches(call[t], "frac", 0, FW)
                /\ Reaches(call[t], "exp", FW, EW)
                /\ Reaches(call[t], "sign", W - 1, 1)
                /\ call[t].arg \in {FloatConstant(1, 10), DoubleConstant(1, 10)} =>
                      ReachesEveryExponent(call[t])

C2_Witness ==
    /\ Returned("a") /\ IsFloatCall("a")
    /\ ToNat(Local("a").sign) = 1
    /\ ToNat(Local("a").exp) = 255
    /\ ToNat(Local("a").frac) = 8388607

(***************************************************************************)
(* C3: float_to_u32 and double_to_u64 reinterpret the storage of their     *)
(* argument and do not convert its value: the word returned has exactly    *)
(* the bits of the argument's encoding, on either byte order, for finite   *)
(* values, zeros, infinities and NaNs; the float 1.0 gives 0x3F800000 and  *)
(* not the integer 1.                                                      *)
(***************************************************************************)
C3_Reinterpret ==
    \A t \in Callers :
        HasU(t) =>
            /\ Local(t).u = call[t].arg
            /\ (IsFloatCall(t) /\ call[t].arg = FloatConstant(1, 1)) =>
                  /\ Local(t).u = HexLit(<<3, 15, 8, 0, 0, 0, 0, 0>>, 32)
                  /\ Local(t).u # HexLit(<<1>>, 32)

C3_Witness ==
    /\ HasU("a") /\ IsFloatCall("a")
    /\ endian = "big"
    /\ call["a"].arg = FloatConstant(1, 1)
    /\ ToNat(Local("a").u) = 1065353216

(***************************************************************************)
(* C4: exactly one row of the classification table applies to the          *)
(* exponent and fraction fields of a decoded value, with E_max 255 for     *)
(* decode_float and 2047 for decode_double.                                *)
(***************************************************************************)
C4_OneRow ==
    \A t \in Callers :
        Returned(t) =>
            Cardinality(Classification(Local(t).exp, Local(t).frac, EmaxOf(call[t].fn))) = 1

C4_Witness ==
    /\ Returned("a") /\ IsFloatCall("a")
    /\ ToNat(Local("a").sign) = 1
    /\ Classification(Local("a").exp, Local("a").frac, 255) = {"signed infinity"}

(***************************************************************************)
(* C6: for a finite nonzero x of either width, decoding -x gives the       *)
(* exponent and fraction fields of decoding x and the other sign field.    *)
(***************************************************************************)
C6_SignSymmetry ==
    \A t \in Callers :
        (Returned(t) /\ IsFiniteNonzero(call[t].arg, call[t].fn)) =>
            \A junk \in IndeterminateReps(WidthOf(call[t].fn)) :
                LET n == AloneFields([fn |-> call[t].fn, arg |-> Neg(call[t].arg)], junk)
                IN  /\ n.exp = Local(t).exp
                    /\ n.frac = Local(t).frac
                    /\ ToNat(n.sign) = 1 - ToNat(Local(t).sign)
                    /\ n.u # Local(t).u

C6_Witness ==
    /\ Returned("a") /\ IsFloatCall("a")
    /\ call["a"].arg = Neg(FloatConstant(1, 10))
    /\ ToNat(Local("a").sign) = 1
    /\ ToNat(Local("a").exp) = 123

(***************************************************************************)
(* C7: decode_float and decode_double are total: a call on any bit         *)
(* pattern, zeros, subnormals, infinities and NaNs included, runs to its   *)
(* return with u, sign, exp and frac all holding words of the call's       *)
(* width.                                                                  *)
(***************************************************************************)
Populated(t) ==
    /\ IsWord(Local(t).u, WidthOf(call[t].fn))
    /\ IsWord(Local(t).sign, WidthOf(call[t].fn))
    /\ IsWord(Local(t).exp, WidthOf(call[t].fn))
    /\ IsWord(Local(t).frac, WidthOf(call[t].fn))

C7_Total == Active("a") ~> (Returned("a") /\ Populated("a"))

C7_Witness ==
    /\ Returned("a") /\ Populated("a")
    /\ IsNaNValue(call["a"].arg, call["a"].fn)
    /\ call["a"].arg[0] = 1

(***************************************************************************)
(* C8, as stated: a call's fields depend only on its own input in every    *)
(* interleaving, and no call reads or writes state shared with another     *)
(* call.                                                                   *)
(***************************************************************************)
FieldsOwn ==
    \A t \in Callers :
        Returned(t) =>
            \A junk \in IndeterminateReps(WidthOf(call[t].fn)) :
                Local(t) = AloneFields(call[t], junk)

\* A step leaves alone the frame of every caller that does not take it.
FramesPrivate == \A t \in Callers : pc'[t] = pc[t] => frame'[t] = frame[t]

IsPrefix(s, r) == Len(s) <= Len(r) /\ SubSeq(r, 1, Len(s)) = s

FracHexAndDecimal(frac, pad) == FmtHex(frac, pad) \o <<" (">> \o FmtDec(frac) \o <<")\n">>

C9_FracHexAndDecimal ==
    Returned("a") =>
        /\ IsFloatCall("a") =>
              EndsWith(out, <<"frac  = 0x">> \o FracHexAndDecimal(Local("a").frac, 6))
        /\ IsDoubleCall("a") =>
              EndsWith(out, <<"frac   = 0x">> \o FracHexAndDecimal(Local("a").frac, 13))

(***************************************************************************)
(* C10: print_bits_u32 and print_bits_u64 return after emitting the bits   *)
(* of the word most significant first, a space after the sign bit and a    *)
(* space after the last exponent bit (groups of 1, 8, 23 and 1, 11, 52     *)
(* digits) and nothing else; every shift amount is within 0..width-1.      *)
(***************************************************************************)
DigitOf(b) == IF b = 1 THEN "1" ELSE "0"

ExpectedBits(x, W, EW) ==
    [p \in 1..(W + 2) |->
        IF p = 1 THEN DigitOf(x[W - 1])
        ELSE IF p = 2 THEN " "
        ELSE IF p <= EW + 2 THEN DigitOf(x[W + 1 - p])
        ELSE IF p = EW + 3 THEN " "
        ELSE DigitOf(x[W + 2 - p])]

DigitsEmitted == Cardinality({p \in 1..Len(out) : out[p] # " "})

C10_PrintBits ==
    loop.fn # "none" =>
        LET W == IF loop.fn = "print_bits_u32" THEN 32 ELSE 64
            EW == IF loop.fn = "print_bits_u32" THEN 8 ELSE 11
        IN  /\ loop.i \in (0 - 1)..(W - 1)
            /\ DigitsEmitted = (W - 1) - loop.i
            /\ loop.at = "returned" => out = ExpectedBits(loop.x, W, EW)
            /\ loop.at = "returned" =>
                  out = IF loop.fn = "print_bits_u32"
                        THEN print_bits_u32(loop.x) ELSE print_bits_u64(loop.x)
            /\ (loop.at = "for" /\ loop.i = 0 - 1) => out = ExpectedBits(loop.x, W, EW)

C10_Witness ==
    /\ loop.fn = "print_bits_u64" /\ loop.at = "returned"
    /\ Len(out) = 66
    /\ out[1] = "1" /\ out[2] = " " /\ out[14] = " " /\ out[66] = "1" /\ out[15] = "0"

====
